---- MODULE Spec2Model ----
(***************************************************************************)
(* A model of src/main.rs: a control thread (run) that walks a schedule of *)
(* accords, builds one pluck unit per note and installs it with            *)
(* net.replace + net.commit, and an audio callback (write_data) that pulls *)
(* one stereo frame per output frame from the network's backend.           *)
(*                                                                         *)
(* main.rs holds the sequencer, the callback and the frequency resolver.   *)
(* The network itself (Net64, its backend, the two message channels        *)
(* between them), the sample conversion and the stream are library code;   *)
(* they are modelled here by their protocol: commit sends a copy of the    *)
(* frontend network over a bounded lock-free queue, the backend takes the  *)
(* latest queued network at the start of a tick and sends every network it *)
(* gives up back over a second queue, which commit empties.                *)
(***************************************************************************)
EXTENDS Integers, Sequences, FiniteSets, TLC

(***************************************************************************)
(* Exact integer arithmetic used to evaluate 440 * 2^(e/12) to the         *)
(* milli-Hertz.  Numbers are little-endian digit sequences in base 1000.   *)
(***************************************************************************)
BigBase == 1000

Max2(a, b) == IF a >= b THEN a ELSE b

Min2(a, b) == IF a <= b THEN a ELSE b

RECURSIVE BigFromInt(_)
BigFromInt(x) ==
    IF x < BigBase THEN <<x>> ELSE <<x % BigBase>> \o BigFromInt(x \div BigBase)

RECURSIVE ConvSum(_, _, _, _, _)
ConvSum(a, b, k, i, hi) ==
    IF i > hi THEN 0 ELSE a[i] * b[k + 1 - i] + ConvSum(a, b, k, i + 1, hi)

RECURSIVE Carry(_, _, _)
Carry(raw, i, c) ==
    IF i > Len(raw)
    THEN IF c = 0 THEN << >> ELSE <<c % BigBase>> \o Carry(raw, i, c \div BigBase)
    ELSE LET t == raw[i] + c
         IN  <<t % BigBase>> \o Carry(raw, i + 1, t \div BigBase)

BigMul(a, b) ==
    LET n == Len(a) + Len(b) - 1
        raw == [k \in 1..n |->
                  ConvSum(a, b, k, Max2(1, k + 1 - Len(b)), Min2(k, Len(a)))]
    IN  Carry(raw, 1, 0)

RECURSIVE Pow2(_)
Pow2(k) == IF k = 0 THEN 1 ELSE 2 * Pow2(k - 1)

\* a * 2^k, twenty doublings at a time.
RECURSIVE BigTimes2(_, _)
BigTimes2(a, k) ==
    IF k = 0 THEN a
    ELSE LET j == Min2(k, 20)
         IN  BigTimes2(BigMul(a, BigFromInt(Pow2(j))), k - j)

RECURSIVE BigCmpFrom(_, _, _)
BigCmpFrom(a, b, i) ==
    IF i = 0 THEN 0
    ELSE IF a[i] < b[i] THEN -1
    ELSE IF a[i] > b[i] THEN 1
    ELSE BigCmpFrom(a, b, i - 1)

BigCmp(a, b) ==
    IF Len(a) < Len(b) THEN -1
    ELSE IF Len(a) > Len(b) THEN 1
    ELSE BigCmpFrom(a, b, Len(a))

BigPow12(a) ==
    LET a2 == BigMul(a, a)
        a4 == BigMul(a2, a2)
        a6 == BigMul(a4, a2)
    IN  BigMul(a6, a6)

\* 440 Hz in milli-Hertz, and its 12th power.
AnchorMilliHz == 440 * 1000

Anchor12 == BigPow12(BigFromInt(AnchorMilliHz))

\* Sign of  x^12 - (440000 * 2^(e/12))^12 : compares x with the frequency
\* 440 * 2^(e/12) expressed in milli-Hertz, without leaving the integers.
CmpPow(x, e) ==
    IF x = 0 THEN -1
    ELSE BigCmp(BigTimes2(BigPow12(BigFromInt(x)), Max2(0, -e)),
                BigTimes2(Anchor12, Max2(0, e)))

\* Largest x in lo..hi-1 with x^12 <= (440000 * 2^(e/12))^12, by bisection.
RECURSIVE FloorRoot(_, _, _)
FloorRoot(lo, hi, e) ==
    IF hi - lo <= 1 THEN lo
    ELSE LET mid == (lo + hi) \div 2
         IN  IF CmpPow(mid, e) <= 0 THEN FloorRoot(mid, hi, e) ELSE FloorRoot(lo, mid, e)

BaseNote == <<"C", "Cis", "D", "Dis", "E", "F", "Fis", "G", "Gis", "A", "Ais", "H">>

\* The table with the anchor A one step too high.
note_number_shifted(note) ==
    CASE note.note = "C" -> 1
      [] note.note = "Cis" -> 2
      [] note.note = "D" -> 3
      [] note.note = "Dis" -> 4
      [] note.note = "E" -> 5
      [] note.note = "F" -> 6
      [] note.note = "Fis" -> 7
      [] note.note = "G" -> 8
      [] note.note = "Gis" -> 9
      [] note.note = "A" -> 10
      [] note.note = "Ais" -> 11
      [] note.note = "H" -> 12

note_number(note) ==
    CASE note.note = "C" -> 0
      [] note.note = "Cis" -> 1
      [] note.note = "D" -> 2
      [] note.note = "Dis" -> 3
      [] note.note = "E" -> 4
      [] note.note = "F" -> 5
      [] note.note = "Fis" -> 6
      [] note.note = "G" -> 7
      [] note.note = "Gis" -> 8
      [] note.note = "A" -> 9
      [] note.note = "Ais" -> 10
      [] note.note = "H" -> 11

\* Numerator of the exponent (note - 9.0) / 12.0.
note_exponent(note) == (note_number(note) + 12 * note.octave) - 9

\* 440.0 * 2.0.pow((note - 9.0) / 12.0), as the whole number of milli-Hertz
\* below the real value; exact tells whether the real value is that number.
get_note_frequency(note) ==
    LET e == note_exponent(note)
        hi == AnchorMilliHz * Pow2(Max2(0, (e + 11) \div 12)) + 1
        x == FloorRoot(0, hi, e)
    IN  [mHz |-> x, exact |-> CmpPow(x, e) = 0]

(***************************************************************************)
(* Bounds of the model.                                                    *)
(***************************************************************************)
\* Octaves -MaxOctave..MaxOctave are resolved.
MaxOctave == 2

\* Longest output buffer handed to the callback, in samples.
MaxBuffer == 3

\* Largest channel count of the stream.
MaxChannels == 3

(***************************************************************************)
(* Data of run.                                                            *)
(***************************************************************************)
Note(n, o) == [note |-> n, octave |-> o]

Accord(ns) == [notes |-> ns]

bpm == 160

\* The schedule run plays.
asdf == <<Accord(<<Note("C", 0), Note("E", 0), Note("C", 1)>>)>>

\* Schedules the sequencer is run on: the one of main.rs and shorter and
\* longer literal schedules of the same shape.
Schedules ==
    { asdf,
      <<Accord(<<Note("C", 0)>>)>>,
      <<Accord(<<Note("A", 0)>>), Accord(<<Note("D", 0), Note("G", -1)>>)>>,
      << >> }

\* Node ids handed out by net.chain: the generator first, then the pan stage.
id_noise == 0

id_pan == 1

NodeIds == {id_noise, id_pan}

\* An audio unit: what it is, which install built it (0: built at start-up),
\* its frequency, and how many times it was cloned from the unit user code
\* built (gen 0 is that unit itself).
Unit(kind, idx, mHz) == [kind |-> kind, idx |-> idx, mHz |-> mHz, gen |-> 0]

zero == Unit("zero", 0, 0)

pan == Unit("pan", 0, 0)

pluck(frequency, idx) == Unit("pluck", idx, frequency.mHz)

CloneUnit(u) == [u EXCEPT !.gen = @ + 1]

\* Frequencies of the notes of the schedules, resolved once.
ScheduleNotes == UNION { UNION { {a.notes[i] : i \in 1..Len(a.notes)} : a \in {s[j] : j \in 1..Len(s)} } : s \in Schedules }

Frequency == [n \in ScheduleNotes |-> get_note_frequency(n)]

(***************************************************************************)
(* The network (library): nodes by id, each with the revision at which it  *)
(* last changed, and the network's revision.                               *)
(***************************************************************************)
\* Capacity of each of the two queues between frontend and backend.
ChannelCapacity == 1024

Vertex(u, c) == [unit |-> u, changed |-> c]

\* Net64::new(0, 2) followed by the two chain calls.
Net_new == [vertex |-> (id_noise :> Vertex(zero, 0)) @@ (id_pan :> Vertex(pan, 0)),
            revision |-> 0]

Net_clone(net) ==
    [net EXCEPT !.vertex = [id \in NodeIds |-> [net.vertex[id] EXCEPT !.unit = CloneUnit(@)]]]

\* net.replace(id, unit): the node's unit is exchanged; the old one is returned.
Net_replace(net, id, unit) ==
    [net EXCEPT !.vertex[id] = Vertex(unit, net.revision)]

\* What the frontend keeps after net.backend() or net.commit() sent `net` away:
\* clones of the units, and the next revision.
Net_after_send(net) == [Net_clone(net) EXCEPT !.revision = @ + 1]

NetUnits(net) == {net.vertex[id].unit : id \in DOMAIN net.vertex}

\* What is left of a network once it has been dropped: no node, no unit.
Net_dropped(net) == [net EXCEPT !.vertex = << >>]

\* The backend adopts `new`: a node that did not change since the backend's
\* revision keeps the backend's unit (and its state), a changed node takes the
\* new unit.  Returns the network the backend now runs and the one it gives up.
Backend_migrate(old, new) ==
    LET keep(id) == new.vertex[id].changed <= old.revision
    IN  [now |-> [new EXCEPT !.vertex = [id \in NodeIds |->
                     IF keep(id) THEN [new.vertex[id] EXCEPT !.unit = old.vertex[id].unit]
                                 ELSE new.vertex[id]]],
         old |-> [old EXCEPT !.vertex = [id \in NodeIds |->
                     IF keep(id) THEN [old.vertex[id] EXCEPT !.unit = new.vertex[id].unit]
                                 ELSE old.vertex[id]]]]

\* try_send on a bounded queue: the message is queued unless the queue is full.
CanSend(queue) == Len(queue) < ChannelCapacity

TrySend(queue, m) == IF CanSend(queue) THEN Append(queue, m) ELSE queue

\* FromSample: the f64 sample converted to the stream's sample type.
from_sample(s) == [s EXCEPT !.fmt = "T"]

VARIABLES
    schedule,     \* the schedule run walks
    channels,     \* config.channels
    cpc,          \* control thread: where run is
    ei,           \* index of the accord of the outer loop
    ni,           \* index of the note of the inner loop
    pending,      \* the unit c built and not yet handed to net.replace
    front,        \* net: the frontend network (without nodes once dropped)
    slept,        \* milliseconds of each sleep so far
    installed,    \* number of installs (replace + commit) that returned
    installLog,   \* one record per install that returned
    isteps,       \* steps of the control thread in the current install
    ctlDropped,   \* units dropped on the control thread
    fwd,          \* queue frontend -> backend
    ret,          \* queue backend -> frontend
    streamAlive,  \* the stream exists (not yet dropped by run's return)
    apc,          \* audio callback: where write_data / get_stereo is
    back,         \* backend: the network the audio thread runs
    latest,       \* handle_messages: latest network received in this tick
    got,          \* handle_messages: a network on its way to the return queue
    buf,          \* output: the buffer of the current callback
    pos,          \* number of samples of buf already covered by frames
    pulls,        \* calls of next_sample in the current callback
    mono,         \* output of the generator node in the current tick
    frame,        \* the stereo frame of the last pull
    pullStart,    \* value of installed when the current pull started
    pullSleep,    \* entry whose sleep was in progress when the pull started, or 0
    observed,     \* install index of the unit the last pull ran
    psteps,       \* steps of the audio thread in the current pull
    rtDropped,    \* units dropped on the audio thread
    qnote,        \* frequency resolver: the note asked for
    qres          \* frequency resolver: the answer, or << >>

ctlVars == <<cpc, ei, ni, pending, front, slept, installed, installLog, isteps, ctlDropped>>

audioVars == <<apc, back, latest, got, buf, pos, pulls, mono, frame, pullStart, pullSleep,
               observed, psteps, rtDropped>>

freqVars == <<qnote, qres>>

vars == <<schedule, channels, ctlVars, fwd, ret, streamAlive, audioVars, freqVars>>

NoSample == [unit |-> -1, pull |-> 0, side |-> "-", fmt |-> "-"]

NoFrame == [l |-> NoSample, r |-> NoSample]

\* State after run has built the network, taken the backend and started the
\* stream (lines 72-93), for a schedule and a channel count.
Init ==
    /\ schedule \in Schedules
    /\ channels \in 1..MaxChannels
    /\ cpc = "accord" /\ ei = 1 /\ ni = 1
    /\ pending = << >>
    /\ front = Net_after_send(Net_new)
    /\ slept = << >> /\ installed = 0 /\ installLog = << >> /\ isteps = 0
    /\ ctlDropped = {}
    /\ fwd = << >> /\ ret = << >>
    /\ streamAlive = TRUE
    /\ apc = "idle"
    /\ back = Net_new
    /\ latest = << >> /\ got = << >>
    /\ buf = << >> /\ pos = 0 /\ pulls = 0
    /\ mono = NoSample /\ frame = NoFrame
    /\ pullStart = 0 /\ pullSleep = 0 /\ observed = 0 /\ psteps = 0
    /\ rtDropped = {}
    /\ qnote = Note("A", 0) /\ qres = << >>

(***************************************************************************)
(* The control thread: the loops of run (lines 131-146).                   *)
(***************************************************************************)
\* let length = 4 * 60000 / bpm;
length == (4 * 60000) \div bpm

\* for accord in asdf: the next accord, or the end of run when none is left.
ForAccord ==
    /\ cpc = "accord"
    /\ IF ei <= Len(schedule)
       THEN cpc' = "note" /\ ni' = 1
       ELSE cpc' = "return" /\ ni' = ni
    /\ UNCHANGED <<ei, pending, front, slept, installed, installLog, isteps, ctlDropped>>
    /\ UNCHANGED <<schedule, channels, fwd, ret, streamAlive, audioVars, freqVars>>

\* The inner loop walking the accord's notes from the last to the first.
ForFrequency_reversed ==
    /\ cpc = "note"
    /\ IF ni <= Len(schedule[ei].notes)
       THEN /\ pending' = <<pluck(Frequency[schedule[ei].notes[Len(schedule[ei].notes) + 1 - ni]],
                                  installed + 1)>>
            /\ isteps' = 1
            /\ cpc' = "replace"
       ELSE /\ pending' = pending
            /\ isteps' = isteps
            /\ cpc' = "sleep"
    /\ UNCHANGED <<ei, ni, front, slept, installed, installLog, ctlDropped>>
    /\ UNCHANGED <<schedule, channels, fwd, ret, streamAlive, audioVars, freqVars>>

\* for frequency in frequencies: the next note's frequency is resolved and
\* c = zero() >> pluck(frequency, 0.5, 0.9) is built; after the last note the
\* inner loop ends.
ForFrequency ==
    /\ cpc = "note"
    /\ IF ni <= Len(schedule[ei].notes)
       THEN /\ pending' = <<pluck(Frequency[schedule[ei].notes[ni]], installed + 1)>>
            /\ isteps' = 1
            /\ cpc' = "replace"
       ELSE /\ pending' = pending
            /\ isteps' = isteps
            /\ cpc' = "sleep"
    /\ UNCHANGED <<ei, ni, front, slept, installed, installLog, ctlDropped>>
    /\ UNCHANGED <<schedule, channels, fwd, ret, streamAlive, audioVars, freqVars>>

\* replace aimed at the pan stage's node instead of the generator's.
Replace_pan ==
    /\ cpc = "replace"
    /\ front' = Net_replace(front, id_pan, pending[1])
    /\ ctlDropped' = ctlDropped \cup {front.vertex[id_pan].unit}
    /\ pending' = << >>
    /\ isteps' = isteps + 1
    /\ cpc' = "commit_recv"
    /\ UNCHANGED <<ei, ni, slept, installed, installLog>>
    /\ UNCHANGED <<schedule, channels, fwd, ret, streamAlive, audioVars, freqVars>>

\* replace with no commit after it: the install returns with the frontend
\* changed and nothing sent to the backend.
Replace_uncommitted ==
    /\ cpc = "replace"
    /\ front' = Net_replace(front, id_noise, pending[1])
    /\ ctlDropped' = ctlDropped \cup {front.vertex[id_noise].unit}
    /\ pending' = << >>
    /\ isteps' = isteps + 1
    /\ installed' = installed + 1
    /\ installLog' = Append(installLog,
                            [entry |-> ei, note |-> ni, idx |-> installed + 1,
                             sleeps |-> Len(slept), mHz |-> pending[1].mHz])
    /\ ni' = ni + 1
    /\ cpc' = "note"
    /\ UNCHANGED <<ei, slept>>
    /\ UNCHANGED <<schedule, channels, fwd, ret, streamAlive, audioVars, freqVars>>

\* replace that first waits for the backend to have taken every network sent.
Replace_waiting ==
    /\ cpc = "replace"
    /\ fwd = << >>
    /\ front' = Net_replace(front, id_noise, pending[1])
    /\ ctlDropped' = ctlDropped \cup {front.vertex[id_noise].unit}
    /\ pending' = << >>
    /\ isteps' = isteps + 1
    /\ cpc' = "commit_recv"
    /\ UNCHANGED <<ei, ni, slept, installed, installLog>>
    /\ UNCHANGED <<schedule, channels, fwd, ret, streamAlive, audioVars, freqVars>>

\* net.replace(id_noise, Box::new(c)): the frontend's generator node takes c;
\* the unit it held is returned and dropped here.
Replace ==
    /\ cpc = "replace"
    /\ front' = Net_replace(front, id_noise, pending[1])
    /\ ctlDropped' = ctlDropped \cup {front.vertex[id_noise].unit}
    /\ pending' = << >>
    /\ isteps' = isteps + 1
    /\ cpc' = "commit_recv"
    /\ UNCHANGED <<ei, ni, slept, installed, installLog>>
    /\ UNCHANGED <<schedule, channels, fwd, ret, streamAlive, audioVars, freqVars>>

\* net.commit(), first part: every network the backend sent back is received
\* and dropped, one try_recv at a time, until the return queue is empty.
CommitRecv ==
    /\ cpc = "commit_recv"
    /\ IF ret # << >>
       THEN /\ ret' = Tail(ret)
            /\ ctlDropped' = ctlDropped \cup NetUnits(Head(ret))
            /\ cpc' = cpc
       ELSE /\ ret' = ret
            /\ ctlDropped' = ctlDropped
            /\ cpc' = "commit_send"
    /\ isteps' = isteps + 1
    /\ UNCHANGED <<ei, ni, pending, front, slept, installed, installLog>>
    /\ UNCHANGED <<schedule, channels, fwd, streamAlive, audioVars, freqVars>>

\* net.commit(), second part: the frontend network is sent to the backend (the
\* frontend keeps clones); a network that does not fit the queue is dropped.
\* commit returns, and with it the install.
CommitSend ==
    /\ cpc = "commit_send"
    /\ fwd' = TrySend(fwd, front)
    /\ ctlDropped' = IF CanSend(fwd) THEN ctlDropped ELSE ctlDropped \cup NetUnits(front)
    /\ front' = Net_after_send(front)
    /\ installed' = installed + 1
    /\ installLog' = Append(installLog,
                            [entry |-> ei, note |-> ni, idx |-> installed + 1,
                             sleeps |-> Len(slept),
                             mHz |-> front.vertex[id_noise].unit.mHz])
    /\ isteps' = isteps + 1
    /\ ni' = ni + 1
    /\ cpc' = "note"
    /\ UNCHANGED <<ei, pending, slept>>
    /\ UNCHANGED <<schedule, channels, ret, streamAlive, audioVars, freqVars>>

\* The sleep followed by a step over the next accord.
Sleep_skipping ==
    /\ cpc = "sleep"
    /\ slept' = Append(slept, length)
    /\ ei' = ei + 2
    /\ cpc' = "accord"
    /\ UNCHANGED <<ni, pending, front, installed, installLog, isteps, ctlDropped>>
    /\ UNCHANGED <<schedule, channels, fwd, ret, streamAlive, audioVars, freqVars>>

\* std::thread::sleep(Duration::from_millis(length)), then the next accord.
Sleep ==
    /\ cpc = "sleep"
    /\ slept' = Append(slept, length)
    /\ ei' = ei + 1
    /\ cpc' = "accord"
    /\ UNCHANGED <<ni, pending, front, installed, installLog, isteps, ctlDropped>>
    /\ UNCHANGED <<schedule, channels, fwd, ret, streamAlive, audioVars, freqVars>>

\* Ok(()): run returns and its locals are dropped in reverse order of
\* declaration, on the control thread: the stream first, after which no
\* callback starts, then net, and with it the units the frontend still holds.
\* What becomes of the networks still in the two queues, and of the backend
\* owned by the stream's callback, is the libraries' affair and is left open.
Return ==
    /\ cpc = "return"
    /\ streamAlive' = FALSE
    /\ ctlDropped' = ctlDropped \cup NetUnits(front)
    /\ front' = Net_dropped(front)
    /\ cpc' = "done"
    /\ UNCHANGED <<ei, ni, pending, slept, installed, installLog, isteps>>
    /\ UNCHANGED <<schedule, channels, fwd, ret, audioVars, freqVars>>

CtlNext == ForAccord \/ ForFrequency \/ Replace \/ CommitRecv \/ CommitSend \/ Sleep \/ Return

(***************************************************************************)
(* The audio thread: the stream's callback, write_data (lines 149-166),    *)
(* and next_value = backend.get_stereo() (lines 79-81).                    *)
(***************************************************************************)
\* next_value pulling from the network the control thread edits, for as long
\* as that network exists.
PullNet_frontend == IF DOMAIN front.vertex = NodeIds THEN front ELSE back

\* The network next_value pulls from: the backend taken at line 79.
PullNet == back

\* The inner loop with the parity test inverted.
write_frame_swapped(output, from, to, left, right) ==
    [i \in 1..Len(output) |->
        IF i > from /\ i <= to
        THEN IF ((i - from - 1) % 2) = 1 THEN left ELSE right
        ELSE output[i]]

\* The frame's samples of write_data's inner loop: channel & 1 == 0 takes left.
write_frame(output, from, to, left, right) ==
    [i \in 1..Len(output) |->
        IF i > from /\ i <= to
        THEN IF ((i - from - 1) % 2) = 0 THEN left ELSE right
        ELSE output[i]]

\* The stream calls the callback with a buffer of some length.
CallbackStart ==
    /\ apc = "idle"
    /\ streamAlive
    /\ \E len \in 0..MaxBuffer : buf' = [i \in 1..len |-> NoSample]
    /\ pos' = 0
    /\ pulls' = 0
    /\ apc' = "chunk"
    /\ UNCHANGED <<back, latest, got, mono, frame, pullStart, pullSleep, observed, psteps,
                   rtDropped>>
    /\ UNCHANGED <<schedule, channels, ctlVars, fwd, ret, streamAlive, freqVars>>

\* for frame in output.chunks_mut(channels): the next chunk, for which
\* next_sample() is called, or the end of the callback.
NextChunk ==
    /\ apc = "chunk"
    /\ IF pos < Len(buf)
       THEN /\ apc' = "recv"
            /\ pullStart' = installed
            /\ pullSleep' = IF cpc = "sleep" THEN ei ELSE 0
            /\ psteps' = 1
       ELSE /\ apc' = "idle"
            /\ UNCHANGED <<pullStart, pullSleep, psteps>>
    /\ UNCHANGED <<back, latest, got, buf, pos, pulls, mono, frame, observed, rtDropped>>
    /\ UNCHANGED <<schedule, channels, ctlVars, fwd, ret, streamAlive, freqVars>>

\* handle_messages: one try_recv.  A received network becomes the latest; the
\* one it supersedes goes back.  An empty queue ends the loop.
HmRecv ==
    /\ apc = "recv"
    /\ IF fwd # << >>
       THEN /\ fwd' = Tail(fwd)
            /\ latest' = <<Head(fwd)>>
            /\ got' = latest
            /\ apc' = IF latest = << >> THEN "recv" ELSE "send_stale"
       ELSE /\ fwd' = fwd
            /\ latest' = latest
            /\ got' = got
            /\ apc' = IF latest = << >> THEN "tick" ELSE "migrate"
    /\ psteps' = psteps + 1
    /\ UNCHANGED <<back, buf, pos, pulls, mono, frame, pullStart, pullSleep, observed,
                   rtDropped>>
    /\ UNCHANGED <<schedule, channels, ctlVars, ret, streamAlive, freqVars>>

\* handle_messages: a superseded network is sent back at once; it is dropped
\* here only when the return queue is full.
HmSendStale ==
    /\ apc = "send_stale"
    /\ ret' = TrySend(ret, got[1])
    /\ rtDropped' = IF CanSend(ret) THEN rtDropped ELSE rtDropped \cup NetUnits(got[1])
    /\ got' = << >>
    /\ apc' = "recv"
    /\ psteps' = psteps + 1
    /\ UNCHANGED <<back, latest, buf, pos, pulls, mono, frame, pullStart, pullSleep, observed>>
    /\ UNCHANGED <<schedule, channels, ctlVars, fwd, streamAlive, freqVars>>

\* handle_messages: the latest network is adopted (migrate, then swap).
HmMigrate ==
    /\ apc = "migrate"
    /\ LET m == Backend_migrate(back, latest[1])
       IN  back' = m.now /\ got' = <<m.old>>
    /\ latest' = << >>
    /\ apc' = "send_old"
    /\ psteps' = psteps + 1
    /\ UNCHANGED <<buf, pos, pulls, mono, frame, pullStart, pullSleep, observed, rtDropped>>
    /\ UNCHANGED <<schedule, channels, ctlVars, fwd, ret, streamAlive, freqVars>>

\* handle_messages: the network given up is sent back for the control thread
\* to drop.
HmSendOld ==
    /\ apc = "send_old"
    /\ ret' = TrySend(ret, got[1])
    /\ rtDropped' = IF CanSend(ret) THEN rtDropped ELSE rtDropped \cup NetUnits(got[1])
    /\ got' = << >>
    /\ apc' = "tick"
    /\ psteps' = psteps + 1
    /\ UNCHANGED <<back, latest, buf, pos, pulls, mono, frame, pullStart, pullSleep, observed>>
    /\ UNCHANGED <<schedule, channels, ctlVars, fwd, streamAlive, freqVars>>

\* tick: the generator node produces its sample.
TickSlot ==
    /\ apc = "tick"
    /\ mono' = [unit |-> PullNet.vertex[id_noise].unit.idx, pull |-> pulls + 1,
                side |-> "M", fmt |-> "f64"]
    /\ apc' = "pan"
    /\ psteps' = psteps + 1
    /\ UNCHANGED <<back, latest, got, buf, pos, pulls, frame, pullStart, pullSleep, observed,
                   rtDropped>>
    /\ UNCHANGED <<schedule, channels, ctlVars, fwd, ret, streamAlive, freqVars>>

\* tick: the pan stage turns the sample into the stereo frame get_stereo returns.
TickPan ==
    /\ apc = "pan"
    /\ frame' = [l |-> [mono EXCEPT !.side = "L"], r |-> [mono EXCEPT !.side = "R"]]
    /\ observed' = mono.unit
    /\ pulls' = pulls + 1
    /\ apc' = "write"
    /\ psteps' = psteps + 1
    /\ UNCHANGED <<back, latest, got, buf, pos, mono, pullStart, pullSleep, rtDropped>>
    /\ UNCHANGED <<schedule, channels, ctlVars, fwd, ret, streamAlive, freqVars>>

\* write_data: the frame is converted and written to the chunk's samples.
WriteFrame ==
    /\ apc = "write"
    /\ LET to == Min2(pos + channels, Len(buf))
       IN  /\ buf' = write_frame(buf, pos, to, from_sample(frame.l), from_sample(frame.r))
           /\ pos' = to
    /\ apc' = "chunk"
    /\ UNCHANGED <<back, latest, got, pulls, mono, frame, pullStart, pullSleep, observed,
                   psteps, rtDropped>>
    /\ UNCHANGED <<schedule, channels, ctlVars, fwd, ret, streamAlive, freqVars>>

AudioNext ==
    \/ CallbackStart \/ NextChunk \/ HmRecv \/ HmSendStale \/ HmMigrate \/ HmSendOld
    \/ TickSlot \/ TickPan \/ WriteFrame

Next == CtlNext \/ AudioNext

Spec == Init /\ [][Next]_vars

(***************************************************************************)
(* The frequency resolver on its own: a note is asked for and resolved.    *)
(***************************************************************************)
ResolverNotes == {Note(BaseNote[p], o) : p \in 1..12, o \in (0 - MaxOctave)..MaxOctave}

InitFreq ==
    /\ schedule = << >>
    /\ channels = 1
    /\ cpc = "done" /\ ei = 1 /\ ni = 1
    /\ pending = << >>
    /\ front = Net_after_send(Net_new)
    /\ slept = << >> /\ installed = 0 /\ installLog = << >> /\ isteps = 0
    /\ ctlDropped = {}
    /\ fwd = << >> /\ ret = << >>
    /\ streamAlive = FALSE
    /\ apc = "idle"
    /\ back = Net_new
    /\ latest = << >> /\ got = << >>
    /\ buf = << >> /\ pos = 0 /\ pulls = 0
    /\ mono = NoSample /\ frame = NoFrame
    /\ pullStart = 0 /\ pullSleep = 0 /\ observed = 0 /\ psteps = 0
    /\ rtDropped = {}
    /\ qnote \in ResolverNotes /\ qres = << >>

Resolve ==
    /\ qres = << >>
    /\ qres' = <<get_note_frequency(qnote)>>
    /\ UNCHANGED <<qnote, schedule, channels, ctlVars, fwd, ret, streamAlive, audioVars>>

NextFreq == Resolve

SpecFreq == InitFreq /\ [][NextFreq]_vars

(***************************************************************************)
(* The control thread under a fair scheduler; nothing is assumed of the    *)
(* audio thread, which may run at any pace or not at all.                  *)
(***************************************************************************)
SpecCtlFair == Init /\ [][Next]_vars /\ WF_vars(CtlNext)

(***************************************************************************)
(* Properties.                                                             *)
(***************************************************************************)
RECURSIVE NotesUpTo(_, _)
NotesUpTo(s, e) == IF e = 0 THEN 0 ELSE Len(s[e].notes) + NotesUpTo(s, e - 1)

InInstall == cpc \in {"replace", "commit_recv", "commit_send"}

InPull == apc \in {"recv", "send_stale", "migrate", "send_old", "tick", "pan"}

\* C1: once an install has returned, every pull that starts later runs the
\* unit of that install or of a later one, never an earlier unit: the unit a
\* pull runs has an install index at least the number of installs that had
\* returned when the pull started.
C1_InstallVisibility ==
    /\ apc = "pan" => mono.unit >= pullStart
    /\ apc = "write" => observed >= pullStart /\ frame.l.unit = observed

\* Installs 1 and 2 had returned when the pull started; it ran unit 3.
C1_Witness == apc = "write" /\ pullStart = 2 /\ observed = 3

\* C2: every pull takes its frame from exactly one fully installed unit: the
\* unit the generator node ran is the unit built by an install that has
\* returned (or the start-up unit), the slot still holds that same unit when
\* the pan stage runs, and both samples of the frame come from it.
C2_SwapAtomicity ==
    /\ apc = "pan" =>
         /\ PullNet.vertex[id_noise].unit.idx = mono.unit
         /\ mono.unit <= installed
         /\ mono.unit > 0 => PullNet.vertex[id_noise].unit.mHz = installLog[mono.unit].mHz
    /\ apc = "write" =>
         /\ frame.l.unit = frame.r.unit /\ frame.l.pull = frame.r.pull
         /\ frame.l.side = "L" /\ frame.r.side = "R"
         /\ frame.l.unit <= installed

\* A pull is between its two stages while the control thread is in the
\* middle of the next install.
C2_Witness == apc = "pan" /\ mono.unit = 2 /\ cpc = "commit_recv" /\ installed = 2

\* C4: neither thread waits for the other: in the middle of an install the
\* control thread always has a step to take and the install has taken at most
\* installed + 3 of them; in the middle of a pull the audio thread always has
\* a step to take and the pull has taken at most 2 * installed + 4 of them.
C4_NonBlocking ==
    /\ InInstall => (ENABLED CtlNext) /\ isteps <= installed + 3
    /\ InPull => (ENABLED AudioNext) /\ psteps <= 2 * installed + 4

\* The control thread is about to send its third network and the audio thread
\* is between the two stages of a tick, each having taken the most steps the
\* bound allows.
C4_Witness ==
    /\ cpc = "commit_send" /\ isteps = installed + 3
    /\ apc = "pan" /\ psteps = 2 * installed + 4 /\ installed = 2

\* C5: for the schedule [(C, 0, 1 beat)] at 160 beats per minute the sequencer
\* has slept 60000 / 160 = 375 ms once, after installing the unit, when it ends.
C5_OneBeatSleep ==
    (cpc = "done" /\ schedule = <<Accord(<<Note("C", 0)>>)>>)
        => slept = <<(1 * 60000) \div bpm>>

PitchClass(note) == CHOOSE p \in 0..11 : BaseNote[p + 1] = note.note

\* C6: get_note_frequency answers for every note, and for pitch class P and
\* octave O the answer is 440 * 2^(((P + 12 * O) - 9) / 12), here to the
\* milli-Hertz below; for (A, 0) the exponent is 0 and the answer is 440
\* exactly; for (C, 0) the answer is within 0.01 of 261.626.
C6_Frequency ==
    qres # << >> =>
        LET e == (PitchClass(qnote) + 12 * qnote.octave) - 9
            f == qres[1]
        IN  /\ CmpPow(f.mHz, e) <= 0
            /\ CmpPow(f.mHz + 1, e) > 0
            /\ f.exact <=> (CmpPow(f.mHz, e) = 0)
            /\ qnote = Note("A", 0) => e = 0 /\ f.mHz = 440000 /\ f.exact
            /\ qnote = Note("C", 0) => f.mHz >= 261626 - 10 /\ f.mHz + 1 <= 261626 + 10

\* (C, 0) has been resolved.
C6_Witness == qnote = Note("C", 0) /\ qres = <<[mHz |-> 261625, exact |-> FALSE]>>

\* C7: write_data pulls once per chunk of `channels` samples, a trailing
\* shorter chunk included; sample i of the buffer holds the converted left
\* value of the pull of its chunk when its index in the chunk is even and the
\* right value when it is odd; when the callback returns every sample has
\* been written.
C7_WriteData ==
    /\ \A i \in 1..Len(buf) :
         IF i <= pos
         THEN /\ buf[i].pull = ((i - 1) \div channels) + 1
              /\ buf[i].side = IF (((i - 1) % channels) % 2) = 0 THEN "L" ELSE "R"
              /\ buf[i].fmt = "T"
              /\ buf[i].unit = buf[i - ((i - 1) % channels)].unit
         ELSE buf[i] = NoSample
    /\ pos <= Len(buf)
    /\ pulls = ((pos + channels - 1) \div channels) + (IF apc = "write" THEN 1 ELSE 0)
    /\ apc = "idle" => pos = Len(buf)

\* A callback over three samples of a two-channel stream has returned: two
\* pulls, the second for a chunk of one sample.
C7_Witness == apc = "idle" /\ Len(buf) = 3 /\ channels = 2 /\ pulls = 2

\* The walk of the schedule so far is in order and complete.
C8_Walk ==
    /\ \A k \in 1..Len(installLog) :
         /\ installLog[k].idx = k
         /\ installLog[k].entry \in 1..Len(schedule)
         /\ k = NotesUpTo(schedule, installLog[k].entry - 1) + installLog[k].note
         /\ installLog[k].note \in 1..Len(schedule[installLog[k].entry].notes)
         /\ installLog[k].mHz =
              Frequency[schedule[installLog[k].entry].notes[installLog[k].note]].mHz
    /\ Len(installLog) = installed
    /\ Len(slept) = ei - 1
    /\ installed = NotesUpTo(schedule, ei - 1)
                     + (IF cpc \in {"note", "replace", "commit_recv", "commit_send", "sleep"}
                        THEN IF cpc = "sleep" THEN Len(schedule[ei].notes) ELSE ni - 1
                        ELSE 0)
    /\ cpc \in {"return", "done"} =>
         Len(slept) = Len(schedule) /\ installed = NotesUpTo(schedule, Len(schedule))
    /\ streamAlive <=> cpc # "done"
    /\ (~streamAlive /\ apc # "idle") => ENABLED AudioNext

\* C8: the sequencer processes the entries in order, each once (its notes
\* resolved, built and installed, then one sleep); run ends once the schedule
\* is exhausted whatever the audio thread does; the stream is dropped only
\* after the last sleep, and a callback in flight then still runs to its end.
C8_Termination == []C8_Walk /\ <>(cpc = "done")

\* run has ended after two entries while a pull was in flight.
C8_Witness == cpc = "done" /\ Len(schedule) = 2 /\ Len(slept) = 2 /\ apc = "tick"

\* Every place that holds units, and the units it holds.
UnitsOfNets(q) == UNION {NetUnits(q[i]) : i \in 1..Len(q)}

RECURSIVE CountNets(_)
CountNets(q) == IF q = << >> THEN 0 ELSE Cardinality(NetUnits(Head(q))) + CountNets(Tail(q))

AllUnits ==
    UnitsOfNets(<<front, back>>) \cup UnitsOfNets(fwd) \cup UnitsOfNets(ret)
      \cup UnitsOfNets(latest) \cup UnitsOfNets(got)
      \cup {pending[i] : i \in 1..Len(pending)} \cup ctlDropped \cup rtDropped

CountUnits ==
    CountNets(<<front, back>>) + CountNets(fwd) + CountNets(ret) + CountNets(latest)
      + CountNets(got) + Len(pending) + Cardinality(ctlDropped) + Cardinality(rtDropped)

C9_Ownership ==
    /\ back.vertex[id_noise].unit.kind \in {"zero", "pluck"}
    /\ back.vertex[id_noise].unit.gen = 0
    /\ back.vertex[id_noise].unit.idx <= installed
    /\ installed = 0 => back.vertex[id_noise].unit = zero
    /\ Len(pending) <= 1
    /\ CountUnits = Cardinality(AllUnits)
    /\ back.vertex[id_pan].unit = pan
    /\ \A n \in {front} \cup {fwd[i] : i \in 1..Len(fwd)} :
         id_pan \in DOMAIN n.vertex => n.vertex[id_pan].unit.kind = "pan"
    /\ (DOMAIN front.vertex = NodeIds) <=> cpc # "done"
    /\ cpc = "done" => front.vertex = << >>

C9_SingleWriterReader ==
    /\ Len(fwd') > Len(fwd) => (ctlVars' # ctlVars /\ audioVars' = audioVars)
    /\ Len(fwd') < Len(fwd) => (audioVars' # audioVars /\ ctlVars' = ctlVars)
    /\ front' # front => audioVars' = audioVars
    /\ back' # back => (ctlVars' = ctlVars /\ fwd' = fwd)
    /\ back'.vertex[id_noise].unit # back.vertex[id_noise].unit =>
         NetUnits(back) \subseteq NetUnits(back') \cup NetUnits(got'[1])

\* C9: at every moment exactly one unit is live in the generator slot the
\* audio thread runs (the start-up zero unit before the first install), at
\* most one unit is pending on the control thread, every unit is held in one
\* place only, the pan stage is never replaced, and install requests are
\* written by the control thread only and taken by the audio thread only.
C9_SingleSlot == []C9_Ownership /\ [][C9_SingleWriterReader]_vars

\* A unit is pending while the unit of install 1 is live and a later network
\* is queued.
C9_Witness ==
    pending # << >> /\ back.vertex[id_noise].unit.idx = 1 /\ Len(fwd) = 1 /\ installed = 2

\* C10: the notes of an accord are installed in note order with no sleep in
\* between, and a pull that starts and ends during the sleep after the
\* accord's last install runs the unit of the accord's last note; a unit of an
\* earlier note is run only by pulls that started before the next install
\* returned.
C10_ChordLastNote ==
    /\ \A k \in 1..Len(installLog) : installLog[k].sleeps = installLog[k].entry - 1
    /\ \A k \in 2..Len(installLog) :
         installLog[k].entry = installLog[k - 1].entry
             => installLog[k].note = installLog[k - 1].note + 1
    /\ (apc = "write" /\ cpc = "sleep" /\ pullSleep = ei) =>
         /\ observed = NotesUpTo(schedule, ei)
         /\ installLog[observed].mHz
              = Frequency[schedule[ei].notes[Len(schedule[ei].notes)]].mHz
    /\ (apc = "write" /\ observed >= 1
          /\ observed < NotesUpTo(schedule, installLog[observed].entry)) =>
         pullStart <= observed

\* A pull during the sleep after the accord of main.rs ran the unit of its
\* third note.
C10_Witness ==
    schedule = asdf /\ apc = "write" /\ cpc = "sleep" /\ pullSleep = 1 /\ observed = 3

====
